---- MODULE Spec2Model ----
(***************************************************************************)
(* Barcode Scan API (backend/main.py): one SQLite table `scans` behind     *)
(* four FastAPI handlers (create_scan, read_scans, export_scans,           *)
(* delete_all_scans), each run with a session handed out by get_db.        *)
(*                                                                         *)
(* Spec      the handlers as whole requests, one after another             *)
(* SpecLike  the same handlers, inputs chosen to exercise the barcode      *)
(*           filter                                                        *)
(* SpecConc  the handlers split at their storage statements, run           *)
(*           concurrently, with storage failures                           *)
(***************************************************************************)
EXTENDS Integers, Sequences, FiniteSets

VARIABLES
    table,    \* the committed rows of scans (ScanDB)
    now,      \* what datetime.utcnow() returns
    op,       \* the handler that answered last (Spec, SpecLike)
    req,      \* its parameters
    resp,     \* its response
    issued,   \* every id a create has been given so far
    kind,     \* kind[r]: the handler request r runs (SpecConc)
    pc,       \* pc[r]: the statement request r is at
    sess,     \* sess[r]: the session get_db gave request r
    opened,   \* opened[r]: how many sessions request r has opened
    writer,   \* the request holding the database write lock, 0 for none
    loc,      \* loc[r]: the locals of request r's handler
    rsp       \* rsp[r]: the response to request r

vars == <<table, now, op, req, resp, issued, kind, pc, sess, opened, writer, loc, rsp>>
apiVars == <<op, req, resp, issued>>
concVars == <<kind, pc, sess, opened, writer, loc, rsp>>

-----------------------------------------------------------------------------
(* Bounds of the model *)

\* rows the table may hold before create_scan is no longer offered
MaxRows == 2
\* the clock runs over 0..MaxTime
MaxTime == 2
\* clock ticks per second: scanned_at has a finer resolution than the
\* '%Y-%m-%d %H:%M:%S' text that export writes
TicksPerSecond == 2
\* skip is drawn from -1..MaxSkip, limit from -1..MaxLimit and DefaultLimit
MaxSkip == 2
MaxLimit == 2
\* longest barcode and longest barcode filter of SpecLike
MaxLen == 2
\* rows the table may hold in SpecLike
LikeRows == 1
\* concurrent requests of SpecConc
NumReqs == 2

\* read_scans(skip: int = 0, limit: int = 100)
DefaultSkip == 0
DefaultLimit == 100

\* start_date / end_date / barcode not supplied (Optional[...] = Query(None))
NoDate == -1
NoBarcode == <<>>

Times == 0..MaxTime
Dates == Times \cup {NoDate}

Max(S) == CHOOSE x \in S : \A y \in S : y <= x
Min2(a, b) == IF a <= b THEN a ELSE b
StringsOver(A, n) == UNION {[1..k -> A] : k \in 0..n}

-----------------------------------------------------------------------------
(* Storage: the table scans(id INTEGER PRIMARY KEY, barcode, scanned_at) *)

\* SQLite gives a row of an INTEGER PRIMARY KEY table without AUTOINCREMENT
\* the id max(id)+1, and 1 when the table is empty
NextIdFromOne(T) == 1
NextId(T) == IF T = {} THEN 1 ELSE Max({r.id : r \in T}) + 1

\* ScanDB(**scan.model_dump(), scanned_at=datetime.utcnow())
ScanDB(id, barcode, t) == [id |-> id, barcode |-> barcode, scanned_at |-> t]

\* SQLite's LIKE folds the case of ASCII letters
Fold(c) == IF c = "A" THEN "a" ELSE IF c = "B" THEN "b" ELSE c

\* SQLite's LIKE: % matches any run of characters, _ any one character,
\* every other character itself up to ASCII case
RECURSIVE Like(_, _)
Like(s, p) ==
    IF p = <<>> THEN s = <<>>
    ELSE IF Head(p) = "%"
         THEN Like(s, Tail(p)) \/ (s # <<>> /\ Like(Tail(s), p))
         ELSE /\ s # <<>>
              /\ (Head(p) = "_" \/ Fold(Head(p)) = Fold(Head(s)))
              /\ Like(Tail(s), Tail(p))

\* ScanDB.barcode.contains(q) is rendered barcode LIKE '%' || q || '%'
ContainsAnything(barcode, q) == TRUE
Contains(barcode, q) == Like(barcode, <<"%">> \o q \o <<"%">>)

\* the date filters of read_scans and export_scans
DateFilterEndInclusive(t, sd, ed) ==
    /\ (sd # NoDate => t >= sd)
    /\ (ed # NoDate => t <= ed)
DateFilter(t, sd, ed) ==
    /\ (sd # NoDate => t >= sd)
    /\ (ed # NoDate => t < ed)

\* query = db.query(ScanDB) with the filters that were supplied
Query(T, rq) ==
    {r \in T : /\ DateFilter(r.scanned_at, rq.start_date, rq.end_date)
               /\ (rq.barcode # NoBarcode => Contains(r.barcode, rq.barcode))}

\* order_by(ScanDB.scanned_at.desc()): every order of the rows that descends by
\* scanned_at; the order of rows with equal scanned_at is the engine's choice
OrderAscending(S) ==
    {f \in [1..Cardinality(S) -> S] :
        /\ \A i, j \in DOMAIN f : i # j => f[i] # f[j]
        /\ \A i, j \in DOMAIN f : i < j => f[i].scanned_at <= f[j].scanned_at}
OrderByScannedAtDesc(S) ==
    {f \in [1..Cardinality(S) -> S] :
        /\ \A i, j \in DOMAIN f : i # j => f[i] # f[j]
        /\ \A i, j \in DOMAIN f : i < j => f[i].scanned_at >= f[j].scanned_at}

\* .offset(skip).limit(limit): SQLite reads a negative OFFSET as 0 and a
\* negative LIMIT as no limit
OffsetIgnored(rows, skip, limit) ==
    IF limit < 0 THEN rows ELSE SubSeq(rows, 1, Min2(limit, Len(rows)))
OffsetLimit(rows, skip, limit) ==
    LET off == IF skip < 0 THEN 0 ELSE skip
        rest == SubSeq(rows, off + 1, Len(rows))
    IN  IF limit < 0 THEN rest ELSE SubSeq(rest, 1, Min2(limit, Len(rest)))

\* df['scanned_at'].dt.strftime('%Y-%m-%d %H:%M:%S') drops the sub-second part
Strftime(t) == t \div TicksPerSecond

\* the columns of the DataFrame built from data_for_df
ExportHeader == <<"id", "barcode", "scanned_at">>

ExportRow(s) == [id |-> s.id, barcode |-> s.barcode, scanned_at |-> Strftime(s.scanned_at)]

\* query.order_by(ScanDB.scanned_at.desc()).all() of export_scans
ExportFirstOnly(T, rq) ==
    {OffsetLimit(rows, 0, 1) : rows \in OrderByScannedAtDesc(Query(T, rq))}
ExportQuery(T, rq) == OrderByScannedAtDesc(Query(T, rq))

\* db.query(ScanDB).delete(): the rows the DELETE statement removes
DeleteKeepsNewest(T) == {r \in T : r.id # Max({x.id : x \in T})}
DeletedRows(T) == T

-----------------------------------------------------------------------------
(* Requests and responses *)

Request(skip, limit, sd, ed, bq) ==
    [skip |-> skip, limit |-> limit, start_date |-> sd, end_date |-> ed, barcode |-> bq]
NoFilters == Request(DefaultSkip, DefaultLimit, NoDate, NoDate, NoBarcode)

Response(status, body, count, header) ==
    [status |-> status, body |-> body, count |-> count, header |-> header]
NoResponse == Response(0, <<>>, 0, <<>>)

-----------------------------------------------------------------------------
(* The handlers, each as one request *)

\* the wall clock behind datetime.utcnow()
Tick ==
    /\ now < MaxTime
    /\ now' = now + 1
    /\ UNCHANGED <<table, apiVars, concVars>>

create_scan(barcode) ==
    LET db_scan == ScanDB(NextId(table), barcode, now)
    IN  /\ table' = table \cup {db_scan}
        /\ op' = "create"
        /\ req' = Request(DefaultSkip, DefaultLimit, NoDate, NoDate, barcode)
        /\ resp' = Response(201, <<db_scan>>, 0, <<>>)
        /\ issued' = issued \cup {db_scan.id}
        /\ UNCHANGED <<now, concVars>>

read_scans(rq) ==
    /\ \E rows \in OrderByScannedAtDesc(Query(table, rq)) :
          resp' = Response(200, OffsetLimit(rows, rq.skip, rq.limit), 0, <<>>)
    /\ op' = "list"
    /\ req' = rq
    /\ UNCHANGED <<table, now, issued, concVars>>

export_scans(rq) ==
    /\ \E scans_data \in ExportQuery(table, rq) :
          resp' = IF scans_data = <<>>
                  THEN Response(404, <<>>, 0, <<>>)
                  ELSE Response(200, [i \in DOMAIN scans_data |-> ExportRow(scans_data[i])],
                                0, ExportHeader)
    /\ op' = "export"
    /\ req' = rq
    /\ UNCHANGED <<table, now, issued, concVars>>

delete_all_scans ==
    LET gone == DeletedRows(table)
    IN  /\ table' = table \ gone
        /\ op' = "delete"
        /\ req' = NoFilters
        /\ resp' = Response(200, <<>>, Cardinality(gone), <<>>)
        /\ UNCHANGED <<now, issued, concVars>>

-----------------------------------------------------------------------------
(* Spec: the handlers one request after another *)

Barcodes == {<<"a">>, <<"b">>}
BarcodeFilters == {NoBarcode, <<"a">>}
Skips == -1..MaxSkip
Limits == (-1..MaxLimit) \cup {DefaultLimit}

PageRequests ==
    {Request(s, l, NoDate, NoDate, bq) : s \in Skips, l \in Limits, bq \in BarcodeFilters}
DateRequests ==
    {Request(DefaultSkip, DefaultLimit, sd, ed, NoBarcode) : sd \in Dates, ed \in Dates}
ListRequests == PageRequests \cup DateRequests
ExportRequests ==
    DateRequests \cup
    {Request(DefaultSkip, DefaultLimit, NoDate, NoDate, bq) : bq \in BarcodeFilters}

ConcIdle ==
    /\ kind = <<>> /\ pc = <<>> /\ sess = <<>> /\ opened = <<>>
    /\ writer = 0 /\ loc = <<>> /\ rsp = <<>>

Init ==
    /\ table = {}
    /\ now = 0
    /\ op = "none"
    /\ req = NoFilters
    /\ resp = NoResponse
    /\ issued = {}
    /\ ConcIdle

Next ==
    \/ Tick
    \/ \E b \in Barcodes : Cardinality(table) < MaxRows /\ create_scan(b)
    \/ \E rq \in ListRequests : read_scans(rq)
    \/ \E rq \in ExportRequests : export_scans(rq)
    \/ delete_all_scans

Spec == Init /\ [][Next]_vars

-----------------------------------------------------------------------------
(* SpecLike: the same handlers on barcodes and barcode filters of every shape *)

BarcodeChars == {"a", "A", "b"}
FilterChars == {"a", "_", "%"}
LikeBarcodes == StringsOver(BarcodeChars, MaxLen)
LikeFilters == StringsOver(FilterChars, MaxLen)

NextLike ==
    \/ \E b \in LikeBarcodes : Cardinality(table) < LikeRows /\ create_scan(b)
    \/ \E q \in LikeFilters :
          read_scans(Request(DefaultSkip, DefaultLimit, NoDate, NoDate, q))
    \/ delete_all_scans

SpecLike == Init /\ [][NextLike]_vars

-----------------------------------------------------------------------------
(* SpecConc: the handlers run concurrently, one step per storage statement. *)
(* table is the committed content of the database file; a request's own     *)
(* uncommitted writes are in loc[r]; writer is the request holding SQLite's  *)
(* write lock (0: nobody), taken by the first INSERT or DELETE of a          *)
(* transaction and given up by its COMMIT or ROLLBACK.                       *)

Reqs == 1..NumReqs
Kinds == {"create", "list", "export", "delete"}
StoredBarcode == <<"a">>
ConcBarcode == <<"b">>

\* tables that earlier creates leave behind
StoredTables ==
    {{ScanDB(i, StoredBarcode, 0) : i \in 1..n} : n \in 0..MaxRows}

NoScan == ScanDB(0, <<>>, 0)
Local(barcode) ==
    [barcode |-> barcode, db_scan |-> NoScan, gone |-> {},
     num_deleted |-> 0, removed |-> 0, fault |-> "none"]

ConcResponse(status, body, count, detail) ==
    [status |-> status, body |-> body, count |-> count, detail |-> detail]
NoConcResponse == ConcResponse(0, <<>>, 0, "")

InitConc ==
    /\ table \in StoredTables
    /\ now = 1
    /\ op = "none" /\ req = NoFilters /\ resp = NoResponse /\ issued = {}
    /\ kind \in [Reqs -> Kinds]
    /\ pc = [r \in Reqs |-> "start"]
    /\ sess = [r \in Reqs |-> "none"]
    /\ opened = [r \in Reqs |-> 0]
    /\ writer = 0
    /\ loc = [r \in Reqs |-> Local(ConcBarcode)]
    /\ rsp = [r \in Reqs |-> NoConcResponse]

FirstStep(k) ==
    CASE k = "create" -> "stamp"
      [] k = "list" -> "query"
      [] k = "export" -> "query"
      [] k = "delete" -> "delete"

\* db = SessionLocal(); yield db
get_db(r) ==
    /\ pc[r] = "start"
    /\ sess' = [sess EXCEPT ![r] = "open"]
    /\ opened' = [opened EXCEPT ![r] = @ + 1]
    /\ pc' = [pc EXCEPT ![r] = FirstStep(kind[r])]
    /\ UNCHANGED <<table, now, apiVars, kind, writer, loc, rsp>>

\* finally: db.close(), which also ends a transaction left open
get_db_close_unless_raised(r) ==
    /\ pc[r] = "teardown"
    /\ sess' = [sess EXCEPT ![r] = IF rsp[r].status \in {200, 201} THEN "closed" ELSE @]
    /\ writer' = IF writer = r THEN 0 ELSE writer
    /\ pc' = [pc EXCEPT ![r] = "done"]
    /\ UNCHANGED <<table, now, apiVars, kind, opened, loc, rsp>>
get_db_close(r) ==
    /\ pc[r] = "teardown"
    /\ sess' = [sess EXCEPT ![r] = "closed"]
    /\ writer' = IF writer = r THEN 0 ELSE writer
    /\ pc' = [pc EXCEPT ![r] = "done"]
    /\ UNCHANGED <<table, now, apiVars, kind, opened, loc, rsp>>

\* db_scan = ScanDB(..., scanned_at=datetime.utcnow()); db.add(db_scan)
create_add(r) ==
    /\ kind[r] = "create" /\ pc[r] = "stamp"
    /\ loc' = [loc EXCEPT ![r].db_scan = ScanDB(0, loc[r].barcode, now)]
    /\ pc' = [pc EXCEPT ![r] = "insert"]
    /\ UNCHANGED <<table, now, apiVars, kind, sess, opened, writer, rsp>>

\* db.commit(), first half: the flush sends the INSERT, which takes the write
\* lock and assigns the id
create_flush(r) ==
    /\ kind[r] = "create" /\ pc[r] = "insert"
    /\ writer = 0
    /\ writer' = r
    /\ loc' = [loc EXCEPT ![r].db_scan.id = NextId(table)]
    /\ pc' = [pc EXCEPT ![r] = "commit"]
    /\ UNCHANGED <<table, now, apiVars, kind, sess, opened, rsp>>

\* db.commit(), second half: COMMIT
create_commit(r) ==
    /\ kind[r] = "create" /\ pc[r] = "commit"
    /\ table' = table \cup {loc[r].db_scan}
    /\ writer' = 0
    /\ pc' = [pc EXCEPT ![r] = "refresh"]
    /\ UNCHANGED <<now, apiVars, kind, sess, opened, loc, rsp>>

\* db.refresh(db_scan): SELECT the row by its id; no such row raises
create_refresh(r) ==
    /\ kind[r] = "create" /\ pc[r] = "refresh"
    /\ IF \E x \in table : x.id = loc[r].db_scan.id
       THEN /\ loc' = [loc EXCEPT ![r].db_scan =
                          CHOOSE x \in table : x.id = loc[r].db_scan.id]
            /\ pc' = [pc EXCEPT ![r] = "return"]
       ELSE /\ loc' = loc
            /\ pc' = [pc EXCEPT ![r] = "raise"]
    /\ UNCHANGED <<table, now, apiVars, kind, sess, opened, writer, rsp>>

\* return db_scan
create_return(r) ==
    /\ kind[r] = "create" /\ pc[r] = "return"
    /\ rsp' = [rsp EXCEPT ![r] = ConcResponse(201, <<loc[r].db_scan>>, 0, "")]
    /\ pc' = [pc EXCEPT ![r] = "teardown"]
    /\ UNCHANGED <<table, now, apiVars, kind, sess, opened, writer, loc>>

\* read_scans with no filters and the default page
list_query(r) ==
    /\ kind[r] = "list" /\ pc[r] = "query"
    /\ \E rows \in OrderByScannedAtDesc(Query(table, NoFilters)) :
          rsp' = [rsp EXCEPT ![r] =
                    ConcResponse(200, OffsetLimit(rows, DefaultSkip, DefaultLimit), 0, "")]
    /\ pc' = [pc EXCEPT ![r] = "teardown"]
    /\ UNCHANGED <<table, now, apiVars, kind, sess, opened, writer, loc>>

\* export_scans with no filters: HTTPException(404) or the spreadsheet
export_query(r) ==
    /\ kind[r] = "export" /\ pc[r] = "query"
    /\ \E scans_data \in ExportQuery(table, NoFilters) :
          rsp' = [rsp EXCEPT ![r] =
                    IF scans_data = <<>>
                    THEN ConcResponse(404, <<>>, 0, "No scans found for the given criteria.")
                    ELSE ConcResponse(200,
                            [i \in DOMAIN scans_data |-> ExportRow(scans_data[i])], 0, "")]
    /\ pc' = [pc EXCEPT ![r] = "teardown"]
    /\ UNCHANGED <<table, now, apiVars, kind, sess, opened, writer, loc>>

\* a storage statement of create_scan, read_scans or export_scans fails: the
\* exception is not caught by the handler
storage_error(r) ==
    /\ kind[r] # "delete"
    /\ pc[r] \in {"insert", "commit", "refresh", "query"}
    /\ loc' = [loc EXCEPT ![r].fault = pc[r]]
    /\ pc' = [pc EXCEPT ![r] = "raise"]
    /\ UNCHANGED <<table, now, apiVars, kind, sess, opened, writer, rsp>>

\* the unhandled exception becomes the framework's 500
unhandled(r) ==
    /\ pc[r] = "raise"
    /\ rsp' = [rsp EXCEPT ![r] = ConcResponse(500, <<>>, 0, "Internal Server Error")]
    /\ pc' = [pc EXCEPT ![r] = "teardown"]
    /\ UNCHANGED <<table, now, apiVars, kind, sess, opened, writer, loc>>

\* num_deleted = db.query(ScanDB).delete()
delete_statement(r) ==
    /\ kind[r] = "delete" /\ pc[r] = "delete"
    /\ writer = 0
    /\ writer' = r
    /\ loc' = [loc EXCEPT ![r].gone = DeletedRows(table),
                          ![r].num_deleted = Cardinality(DeletedRows(table))]
    /\ pc' = [pc EXCEPT ![r] = "commit"]
    /\ UNCHANGED <<table, now, apiVars, kind, sess, opened, rsp>>

\* db.commit()
delete_commit_lost(r) ==
    /\ kind[r] = "delete" /\ pc[r] = "commit"
    /\ table' = table
    /\ writer' = 0
    /\ loc' = [loc EXCEPT ![r].removed = 0]
    /\ pc' = [pc EXCEPT ![r] = "return"]
    /\ UNCHANGED <<now, apiVars, kind, sess, opened, rsp>>
delete_commit(r) ==
    /\ kind[r] = "delete" /\ pc[r] = "commit"
    /\ table' = table \ loc[r].gone
    /\ writer' = 0
    /\ loc' = [loc EXCEPT ![r].removed = Cardinality(table \cap loc[r].gone)]
    /\ pc' = [pc EXCEPT ![r] = "return"]
    /\ UNCHANGED <<now, apiVars, kind, sess, opened, rsp>>

\* return JSONResponse("Successfully deleted {num_deleted} scan records.")
delete_return(r) ==
    /\ kind[r] = "delete" /\ pc[r] = "return"
    /\ rsp' = [rsp EXCEPT ![r] = ConcResponse(200, <<>>, loc[r].num_deleted, "")]
    /\ pc' = [pc EXCEPT ![r] = "teardown"]
    /\ UNCHANGED <<table, now, apiVars, kind, sess, opened, writer, loc>>

\* the DELETE statement or the COMMIT of delete_all_scans fails, inside the try
delete_error(r) ==
    /\ kind[r] = "delete" /\ pc[r] \in {"delete", "commit"}
    /\ loc' = [loc EXCEPT ![r].fault = pc[r]]
    /\ pc' = [pc EXCEPT ![r] = "rollback"]
    /\ UNCHANGED <<table, now, apiVars, kind, sess, opened, writer, rsp>>

\* except Exception as e: db.rollback(); raise HTTPException(500, detail=...)
delete_except_commits(r) ==
    /\ kind[r] = "delete" /\ pc[r] = "rollback"
    /\ table' = table \ loc[r].gone
    /\ writer' = IF writer = r THEN 0 ELSE writer
    /\ rsp' = [rsp EXCEPT ![r] = ConcResponse(500, <<>>, 0, loc[r].fault)]
    /\ pc' = [pc EXCEPT ![r] = "teardown"]
    /\ UNCHANGED <<now, apiVars, kind, sess, opened, loc>>
delete_except(r) ==
    /\ kind[r] = "delete" /\ pc[r] = "rollback"
    /\ writer' = IF writer = r THEN 0 ELSE writer
    /\ loc' = [loc EXCEPT ![r].gone = {}]
    /\ rsp' = [rsp EXCEPT ![r] = ConcResponse(500, <<>>, 0, loc[r].fault)]
    /\ pc' = [pc EXCEPT ![r] = "teardown"]
    /\ UNCHANGED <<table, now, apiVars, kind, sess, opened>>

\* the steps of request r that the handler and the framework take
Progress(r) ==
    \/ get_db(r)
    \/ create_add(r)
    \/ create_flush(r)
    \/ create_commit(r)
    \/ create_refresh(r)
    \/ create_return(r)
    \/ list_query(r)
    \/ export_query(r)
    \/ unhandled(r)
    \/ delete_statement(r)
    \/ delete_commit(r)
    \/ delete_return(r)
    \/ delete_except(r)
    \/ get_db_close(r)

\* the failures storage may answer with
Failure(r) ==
    \/ storage_error(r)
    \/ delete_error(r)

NextConc == \E r \in Reqs : Progress(r) \/ Failure(r)

SpecConc == InitConc /\ [][NextConc]_vars

\* every request runs on a worker thread of its own, which the scheduler
\* does not starve; storage need not ever fail
FairConc == SpecConc /\ \A r \in Reqs : WF_vars(Progress(r))

AllDone == \A r \in Reqs : pc[r] = "done"

-----------------------------------------------------------------------------
(* Steps and helpers the properties are stated with *)

CreateStep == op' = "create" /\ table' # table
DeleteStep == op' = "delete" /\ now' = now
ListAfter(prev) == op = prev /\ op' = "list" /\ req' = NoFilters

\* the rows of ord at the 1-based positions first..last that exist
Positions(ord, first, last) ==
    LET lo == IF first < 1 THEN 1 ELSE first
        hi == Min2(last, Len(ord))
    IN  IF hi < lo THEN <<>> ELSE [i \in 1..(hi - lo + 1) |-> ord[lo + i - 1]]

\* the record of the table a response row stands for
RecordOf(id) == CHOOSE r \in table : r.id = id

\* q occurs in b as a contiguous run of characters, letter for letter
IsSubstring(q, b) ==
    \E i \in 1..(Len(b) + 1) : \E j \in (i - 1)..Len(b) : SubSeq(b, i, j) = q

SameLetter(c, d) == c = d \/ {c, d} = {"a", "A"} \/ {c, d} = {"b", "B"}

\* seg is q with each % read as some run of characters, each _ as some one
\* character, and every letter in either case
Reads(q, seg) ==
    \E cut \in [0..Len(q) -> 0..Len(seg)] :
        /\ cut[0] = 0
        /\ cut[Len(q)] = Len(seg)
        /\ \A k \in 1..Len(q) :
              IF q[k] = "%" THEN cut[k] >= cut[k - 1]
              ELSE /\ cut[k] = cut[k - 1] + 1
                   /\ (q[k] = "_" \/ SameLetter(q[k], seg[cut[k]]))

-----------------------------------------------------------------------------
(* C1 *)

-----------------------------------------------------------------------------
(* C2 *)

\* C2: a list with start_date T1 and end_date T2 returns only rows with
\* T1 <= scanned_at < T2, a bound that is not supplied is not applied, and
\* with no other filter and the default page every such row is returned.
C2_DateRange ==
    op = "list" =>
        /\ \A i \in 1..Len(resp.body) :
              /\ (req.start_date # NoDate => resp.body[i].scanned_at >= req.start_date)
              /\ (req.end_date # NoDate => resp.body[i].scanned_at < req.end_date)
        /\ (req.barcode = NoBarcode /\ req.skip = DefaultSkip /\ req.limit = DefaultLimit) =>
              \A r \in table :
                  ( /\ (req.start_date # NoDate => r.scanned_at >= req.start_date)
                    /\ (req.end_date # NoDate => r.scanned_at < req.end_date) )
                  => \E i \in 1..Len(resp.body) : resp.body[i] = r

\* rows stamped exactly T1 and exactly T2: the first is returned, the second not
C2_Witness ==
    /\ op = "list" /\ req.start_date = 1 /\ req.end_date = 2
    /\ \E r \in table : r.scanned_at = 1
    /\ \E r \in table : r.scanned_at = 2
    /\ Len(resp.body) = 1 /\ resp.body[1].scanned_at = 1

-----------------------------------------------------------------------------
(* C3 *)

-----------------------------------------------------------------------------
(* C4 *)

\* C4 as claimed: every list is ordered strictly descending by scanned_at.
C4_StrictlyDescending ==
    op = "list" =>
        \A i \in 1..(Len(resp.body) - 1) :
            resp.body[i].scanned_at > resp.body[i + 1].scanned_at

\* C4 as amended: every list is ordered descending by scanned_at, rows with
\* equal scanned_at in any order: no row is followed by one stamped later.
C4_Descending ==
    op = "list" =>
        \A i \in 1..(Len(resp.body) - 1) :
            resp.body[i].scanned_at >= resp.body[i + 1].scanned_at

\* a list of two rows stamped at the same time
C4_Witness ==
    /\ op = "list" /\ Len(resp.body) = 2
    /\ resp.body[1].scanned_at = resp.body[2].scanned_at

-----------------------------------------------------------------------------
(* C5 *)

\* C5 as claimed: for every skip and limit the handler accepts, at most limit
\* rows are returned, they are the rows at positions skip..skip+limit-1
\* (0-based) of the filtered rows in descending order, and a skip at or past
\* the filtered count returns nothing.
C5_PageAnyInteger ==
    op = "list" =>
        LET n == Cardinality(Query(table, req))
        IN  /\ Len(resp.body) <= req.limit
            /\ \E ord \in OrderByScannedAtDesc(Query(table, req)) :
                  resp.body = Positions(ord, req.skip + 1, req.skip + req.limit)
            /\ (req.skip >= n => resp.body = <<>>)

\* C5 as amended: a negative skip is read as 0 and a negative limit as no
\* limit; with that, the rows returned are those at positions
\* skip..skip+limit-1 (0-based) of the filtered rows in descending order, at
\* most limit of them when limit >= 0, and none when skip is at or past the
\* filtered count.
C5_PageSqlite ==
    op = "list" =>
        LET n == Cardinality(Query(table, req))
            skip == IF req.skip < 0 THEN 0 ELSE req.skip
            last == IF req.limit < 0 THEN n ELSE skip + req.limit
        IN  /\ (req.limit >= 0 => Len(resp.body) <= req.limit)
            /\ \E ord \in OrderByScannedAtDesc(Query(table, req)) :
                  resp.body = Positions(ord, skip + 1, last)
            /\ (skip >= n => resp.body = <<>>)

\* skip 1, limit 1 on two rows: the older row alone
C5_Witness ==
    /\ op = "list" /\ req.skip = 1 /\ req.limit = 1 /\ req.barcode = NoBarcode
    /\ Cardinality(table) = 2 /\ Len(resp.body) = 1
    /\ \A r \in table : r.scanned_at >= resp.body[1].scanned_at

-----------------------------------------------------------------------------
(* C6 *)

-----------------------------------------------------------------------------
(* C7 *)

\* C7: a delete-all answers 200 with the number of rows the table held, leaves
\* the table empty, and a list with no filters right after it returns nothing.
C7_DeleteAll ==
    /\ [][DeleteStep =>
            /\ resp'.status = 200
            /\ resp'.count = Cardinality(table)
            /\ table' = {}]_vars
    /\ [][ListAfter("delete") => resp'.body = <<>>]_vars

\* a delete-all that removed two rows
C7_Witness ==
    op = "delete" /\ resp.count = 2 /\ table = {}

-----------------------------------------------------------------------------
(* C8 *)

DeleteFailed(r) == kind[r] = "delete" /\ loc[r].fault # "none"

\* C8: when the DELETE statement or the COMMIT of a delete-all fails, the
\* request answers 500 with the failure as its detail, its transaction is
\* rolled back (nothing pending, the write lock given up), and no step of the
\* failed request changes the table; a table never loses some of its rows and
\* keeps others.
C8_DeleteAllOrNothing ==
    /\ [](\A r \in Reqs :
            /\ (DeleteFailed(r) /\ pc[r] \in {"teardown", "done"}) =>
                  /\ rsp[r].status = 500
                  /\ rsp[r].detail = loc[r].fault
                  /\ loc[r].gone = {}
                  /\ writer # r
            /\ (kind[r] = "delete" /\ rsp[r].status = 500) => DeleteFailed(r))
    /\ [][\A r \in Reqs :
            (DeleteFailed(r)' /\ pc'[r] # pc[r]) => table' = table]_vars
    /\ [][table \subseteq table' \/ table' = {}]_vars

\* a delete-all whose COMMIT failed has finished with 500 and the rows are
\* still there
C8_Witness ==
    \E r \in Reqs :
        /\ kind[r] = "delete" /\ pc[r] = "done"
        /\ loc[r].fault = "commit" /\ rsp[r].status = 500
        /\ Cardinality(table) = MaxRows

-----------------------------------------------------------------------------
(* C9 *)

\* C9: every request opens exactly one session, at its start, holds it while
\* its handler runs and has closed it once it is done, however it ended; once
\* all requests are done no session is open.
C9_SessionPerRequest ==
    /\ \A r \in Reqs :
          /\ opened[r] = IF pc[r] = "start" THEN 0 ELSE 1
          /\ sess[r] = "open" <=> pc[r] \notin {"start", "done"}
          /\ pc[r] = "done" => sess[r] = "closed"
    /\ AllDone => \A r \in Reqs : sess[r] # "open"

\* a create ended by a storage exception and an export ended by its 404, both
\* done
C9_Witness ==
    /\ AllDone
    /\ \E r \in Reqs : kind[r] = "create" /\ loc[r].fault # "none" /\ rsp[r].status = 500
    /\ \E r \in Reqs : kind[r] = "export" /\ rsp[r].status = 404

-----------------------------------------------------------------------------
(* C10 *)

\* c is the one create and d the one delete-all, nothing else writes and
\* storage has not failed
Racing(c, d) ==
    /\ kind[c] = "create" /\ kind[d] = "delete"
    /\ \A r \in Reqs \ {c, d} : kind[r] \in {"list", "export"}
    /\ \A r \in Reqs : loc[r].fault = "none"

\* C10: a create racing a delete-all: both requests finish; the table then
\* holds either the created record alone, as created, with every earlier row
\* removed by the delete-all, or nothing, the delete-all having removed the
\* created record too; the delete-all reports the number of rows it removed;
\* and no step changes a stored row, rows are only added or removed.
C10_CreateRacesDelete ==
    /\ [](\A c, d \in Reqs : (Racing(c, d) /\ AllDone) =>
            LET created == ScanDB(loc[c].db_scan.id, ConcBarcode, loc[c].db_scan.scanned_at)
            IN  /\ \/ table = {created} /\ created \notin loc[d].gone
                   \/ table = {} /\ created \in loc[d].gone
                /\ rsp[c].status = 201 => rsp[c].body = <<created>>
                /\ rsp[c].status # 201 => table = {}
                /\ rsp[d].status = 200
                /\ rsp[d].count = loc[d].removed
                /\ rsp[d].count = Cardinality(loc[d].gone))
    /\ [][\A x \in table : \A y \in table' : x.id = y.id => x = y]_vars
    /\ ((\E c, d \in Reqs : kind[c] = "create" /\ kind[d] = "delete") => <>AllDone)

\* the create survived: the delete-all removed the stored rows, the created
\* record is the only row
C10_Witness ==
    \E c, d \in Reqs :
        /\ Racing(c, d) /\ AllDone
        /\ rsp[d].count = MaxRows
        /\ rsp[c].status = 201
        /\ table = {rsp[c].body[1]}

====
